---- MODULE Spec2Model ----
(***************************************************************************)
(* Payroll and vacation administration of employees.py: the vacation and  *)
(* payment strategies, the strategy factory, the OperationLog audit log    *)
(* and the two commands that validate, mutate and record.                  *)
(*                                                                         *)
(* Conventions.  An Optional value is a sequence: <<>> is Python's None    *)
(* and <<v>> is the value v.  Money is counted in whole currency units and *)
(* a bonus percentage in hundredths (0.1 is 10); the input sets keep every *)
(* product integral, so the float arithmetic of the source is exact on     *)
(* them.  A log entry is a dict object: heap holds the objects, and the    *)
(* log and every list returned by a query hold references (indices into    *)
(* heap).  held is the list a caller got from its latest query, and         *)
(* held_is_log tells whether that list is the _operations object itself.   *)
(* callers holds, for each thread calling record concurrently, where it    *)
(* is in the call.  A formatted details string is modelled by the tuple of the      *)
(* literal parts and the values formatted into it.                         *)
(***************************************************************************)
EXTENDS Integers, Sequences, FiniteSets, TLC

VARIABLES employees, heap, log, held, held_is_log, callers, last

vars == <<employees, heap, log, held, held_is_log, callers, last>>

(***************************************************************************)
(* Bounds of the model                                                     *)
(***************************************************************************)
\* Number of OperationLog.record calls explored in one behaviour.
MaxLog == 2

\* Number of threads calling record concurrently.
NumCallers == 3

\* Number of employees a company is given.
MaxEmployees == 2

\* Number of projects one employee is given.
MaxProjects == 2

\* days arguments of a vacation request (int(input(...)) accepts any integer).
DaysValues == {-1, 0, 3, 5, 6, 10, 11}

\* vacation_days an Employee is constructed with (the default is 25).
BalanceValues == {-1, 0, 12, 25}

\* salary, hourly_rate and hours_worked an Employee is constructed with.
SalaryValues == {100}

RateValues == {20}

HoursValues == {160, 170}

\* amount of a Project.
ProjectAmounts == {50, 200}

\* employee_name values of entries and queries; "" is the name an empty
\* input line gives an employee.
Names == {"", "Ann", "Bob"}

\* days arguments of the vacation requests made through a Company.
CompanyDaysValues == {6}

\* amount values of entries recorded directly.
AmountValues == {5}

(***************************************************************************)
(* Domain models                                                           *)
(***************************************************************************)
None == <<>>

Some(v) == <<v>>

SALARIED == "salaried"

HOURLY == "hourly"

FREELANCER == "freelancer"

EmployeeType == {SALARIED, HOURLY, FREELANCER}

INTERN == "intern"

MANAGER == "manager"

VICE_PRESIDENT == "vice_president"

Role == {INTERN, MANAGER, VICE_PRESIDENT}

\* The role field is not checked by the dataclass: NoRole stands for an
\* Employee constructed directly with a role that is no member of Role.
NoRole == "no_role"

Employee(name, role, employee_type, vacation_days, salary, hourly_rate, hours_worked) ==
    [name |-> name, role |-> role, employee_type |-> employee_type,
     vacation_days |-> vacation_days, salary |-> salary,
     hourly_rate |-> hourly_rate, hours_worked |-> hours_worked,
     projects |-> <<>>]

Project(name, amount, delivered) ==
    [name |-> name, amount |-> amount, delivered |-> delivered]

add_project(employee, project) ==
    [employee EXCEPT !.projects = Append(@, project)]

get_delivered_projects_All(employee) == employee.projects

get_delivered_projects(employee) ==
    SelectSeq(employee.projects, LAMBDA p : p.delivered)

(***************************************************************************)
(* Payment strategies                                                      *)
(***************************************************************************)
\* How a function call ended: "ok" with the value returned (an Optional, None
\* being a returned None), or the exception raised.
Returned(value) == [outcome |-> "ok", value |-> value]

Raised(exception) == [outcome |-> exception, value |-> None]

\* sum(project.amount for project in projects)
RECURSIVE SumAmounts(_)
SumAmounts(projects) ==
    IF projects = <<>> THEN 0
    ELSE Head(projects).amount + SumAmounts(Tail(projects))

SalariedPayment_calculate_payment(employee) == Returned(employee.salary)

\* None * x and x * None raise TypeError.
HourlyPayment_calculate_payment(employee) ==
    IF employee.hourly_rate = None \/ employee.hours_worked = None
    THEN Raised("TypeError")
    ELSE Returned(Some(employee.hourly_rate[1] * employee.hours_worked[1]))

FreelancePayment_calculate_payment(employee) ==
    Returned(Some(SumAmounts(get_delivered_projects(employee))))

calculate_payment(payment_strategy, employee) ==
    CASE payment_strategy = "SalariedPayment" -> SalariedPayment_calculate_payment(employee)
      [] payment_strategy = "HourlyPayment" -> HourlyPayment_calculate_payment(employee)
      [] payment_strategy = "FreelancePayment" -> FreelancePayment_calculate_payment(employee)

(***************************************************************************)
(* Vacation policies                                                       *)
(***************************************************************************)
BasicPayoutCap == 5

ManagerPayoutCap == 10

VPRequestCap == 5

HourlyPayoutCap == 5

BasicVacation_can_take_vacation(employee, days) == employee.vacation_days >= days

BasicVacation_can_payout_vacation(employee, days) ==
    employee.vacation_days >= days /\ days <= BasicPayoutCap

ManagerVacation_can_take_vacation_Strict(employee, days) == employee.vacation_days > days

ManagerVacation_can_take_vacation(employee, days) == employee.vacation_days >= days

\* The payout check forgets the balance.
ManagerVacation_can_payout_vacation_NoBalance(employee, days) ==
    days <= ManagerPayoutCap

ManagerVacation_can_payout_vacation(employee, days) ==
    employee.vacation_days >= days /\ days <= ManagerPayoutCap

VPVacation_can_take_vacation(employee, days) == days <= VPRequestCap

VPVacation_can_payout_vacation(employee, days) == days <= VPRequestCap

InternVacation_can_take_vacation(employee, days) == FALSE

InternVacation_can_payout_vacation(employee, days) == FALSE

HourlyVacation_can_take_vacation(employee, days) == employee.vacation_days >= days

HourlyVacation_can_payout_vacation(employee, days) ==
    employee.vacation_days >= days /\ days <= HourlyPayoutCap

\* Dynamic dispatch on the policy object's class.
can_take_vacation(policy, employee, days) ==
    CASE policy = "InternVacation" -> InternVacation_can_take_vacation(employee, days)
      [] policy = "ManagerVacation" -> ManagerVacation_can_take_vacation(employee, days)
      [] policy = "VPVacation" -> VPVacation_can_take_vacation(employee, days)
      [] policy = "HourlyVacation" -> HourlyVacation_can_take_vacation(employee, days)
      [] policy = "BasicVacation" -> BasicVacation_can_take_vacation(employee, days)

can_payout_vacation(policy, employee, days) ==
    CASE policy = "InternVacation" -> InternVacation_can_payout_vacation(employee, days)
      [] policy = "ManagerVacation" -> ManagerVacation_can_payout_vacation(employee, days)
      [] policy = "VPVacation" -> VPVacation_can_payout_vacation(employee, days)
      [] policy = "HourlyVacation" -> HourlyVacation_can_payout_vacation(employee, days)
      [] policy = "BasicVacation" -> BasicVacation_can_payout_vacation(employee, days)

(***************************************************************************)
(* Strategy factory                                                        *)
(***************************************************************************)
create_payment_strategy(employee_type) ==
    IF employee_type = SALARIED THEN "SalariedPayment"
    ELSE IF employee_type = HOURLY THEN "HourlyPayment"
    ELSE IF employee_type = FREELANCER THEN "FreelancePayment"
    ELSE "ValueError"

create_vacation_policy_TypeFirst(role, employee_type) ==
    IF employee_type = HOURLY THEN "HourlyVacation"
    ELSE IF role = INTERN THEN "InternVacation"
    ELSE IF role = MANAGER THEN "ManagerVacation"
    ELSE IF role = VICE_PRESIDENT THEN "VPVacation"
    ELSE "BasicVacation"

create_vacation_policy(role, employee_type) ==
    IF role = INTERN THEN "InternVacation"
    ELSE IF role = MANAGER THEN "ManagerVacation"
    ELSE IF role = VICE_PRESIDENT THEN "VPVacation"
    ELSE IF employee_type = HOURLY THEN "HourlyVacation"
    ELSE "BasicVacation"

(***************************************************************************)
(* Employee factory                                                        *)
(***************************************************************************)
\* The mapping create_employee is given: a key that is absent is None.
EmployeeData(name, role, type, salary, hourly_rate, hours_worked) ==
    [name |-> name, role |-> role, type |-> type, salary |-> salary,
     hourly_rate |-> hourly_rate, hours_worked |-> hours_worked]

\* An unknown tag is kept as a role of its own instead of being refused.
RoleOf_Lenient(tag) == IF tag \in Role THEN Returned(tag) ELSE Returned(NoRole)

\* Role(tag): the member with that value, or ValueError.
RoleOf(tag) == IF tag \in Role THEN Returned(tag) ELSE Raised("ValueError")

\* EmployeeType(tag): the member with that value, or ValueError.
EmployeeTypeOf(tag) ==
    IF tag \in EmployeeType THEN Returned(tag) ELSE Raised("ValueError")

\* EmployeeFactory.create_employee: the employee built (as Returned's value),
\* or the exception raised; data[key] of an absent key raises KeyError.
create_employee(data) ==
    LET role == RoleOf(data.role)
        employee_type == EmployeeTypeOf(data.type)
    IN IF role.outcome # "ok" THEN Raised(role.outcome)
       ELSE IF employee_type.outcome # "ok" THEN Raised(employee_type.outcome)
       ELSE IF employee_type.value = SALARIED
       THEN IF data.salary = None THEN Raised("KeyError")
            ELSE Returned(Employee(data.name, role.value, SALARIED, 25,
                                   data.salary, None, None))
       ELSE IF employee_type.value = HOURLY
       THEN IF data.hourly_rate = None \/ data.hours_worked = None
            THEN Raised("KeyError")
            ELSE Returned(Employee(data.name, role.value, HOURLY, 25,
                                   None, data.hourly_rate, data.hours_worked))
       ELSE Returned(Employee(data.name, role.value, FREELANCER, 25,
                              None, None, None))

(***************************************************************************)
(* Operation log                                                           *)
(***************************************************************************)
\* The dict OperationLog.record builds; the timestamp is the tick of the
\* record call that captured it.
LogEntry(tick, operation, employee_name, amount, details) ==
    [timestamp |-> tick, operation |-> operation, employee_name |-> employee_name,
     amount |-> amount, details |-> details]

\* OperationLog.record for each element of calls, in order: a new dict object
\* per call, its reference appended to _operations.
RecordAll(calls) ==
    /\ heap' = heap \o [k \in 1..Len(calls) |->
                          LogEntry(Len(heap) + k, calls[k].operation,
                                   calls[k].employee_name, calls[k].amount,
                                   calls[k].details)]
    /\ log' = log \o [k \in 1..Len(calls) |-> Len(heap) + k]

RecordCall(operation, employee_name, amount, details) ==
    [operation |-> operation, employee_name |-> employee_name,
     amount |-> amount, details |-> details]

\* Python's truth value of an Optional string: None and "" are false.
Truthy(employee_name) == employee_name # None /\ employee_name # Some("")

\* The unfiltered query hands out _operations itself.
get_operations_new_list_Live(employee_name) == Truthy(employee_name)

\* Is the list get_operations returns a new list object?  Both the list
\* comprehension and list.copy() build one.
get_operations_new_list(employee_name) ==
    IF Truthy(employee_name) THEN TRUE ELSE TRUE

\* OperationLog.get_operations: a new list of the references to the matching
\* dicts, or a shallow copy of _operations.
get_operations(employee_name) ==
    IF Truthy(employee_name)
    THEN SelectSeq(log, LAMBDA ref : heap[ref].employee_name = employee_name)
    ELSE log

(***************************************************************************)
(* Commands                                                                *)
(***************************************************************************)
\* The result of running a command on an employee: how it ended, what it
\* returned, the employee object afterwards and the record calls it made.
Effect(outcome, ret, employee, calls) ==
    [outcome |-> outcome, ret |-> ret, employee |-> employee, calls |-> calls]

\* ConfigurationManager.DEFAULT_CONFIG, in the units of the model.
DefaultSalariedBonusPercentage == 10

DefaultHourlyBonusThreshold == 160

DefaultHourlyBonusAmount == 100

\* A configuration snapshot: a dict in which each of the three keys is present
\* (Some) or absent (None).
Config(percentage, threshold, amount) ==
    [salaried_bonus_percentage |-> percentage, hourly_bonus_threshold |-> threshold,
     hourly_bonus_amount |-> amount]

\* dict.get(key, default), given the Optional stored under the key.
get(stored, default) == IF stored = None THEN default ELSE stored[1]

\* base_payment * percentage, the percentage counted in hundredths.
PercentOf(base_payment, percentage) == (base_payment * percentage) \div 100

\* The threshold test is >= instead of >.
PayEmployeeCommand_calculate_bonus_AtThreshold(employee, base_payment, config) ==
    IF employee.role = INTERN THEN Returned(Some(0))
    ELSE IF employee.employee_type = SALARIED
    THEN IF base_payment = None THEN Raised("TypeError")
         ELSE Returned(Some(PercentOf(base_payment[1],
                  get(config.salaried_bonus_percentage, DefaultSalariedBonusPercentage))))
    ELSE IF employee.employee_type = HOURLY
    THEN IF employee.hours_worked = None THEN Raised("TypeError")
         ELSE Returned(Some(
                  IF employee.hours_worked[1] >=
                         get(config.hourly_bonus_threshold, DefaultHourlyBonusThreshold)
                  THEN get(config.hourly_bonus_amount, DefaultHourlyBonusAmount)
                  ELSE 0))
    ELSE Returned(Some(0))

\* PayEmployeeCommand._calculate_bonus; None * x and None > x raise TypeError.
PayEmployeeCommand_calculate_bonus(employee, base_payment, config) ==
    IF employee.role = INTERN THEN Returned(Some(0))
    ELSE IF employee.employee_type = SALARIED
    THEN IF base_payment = None THEN Raised("TypeError")
         ELSE Returned(Some(PercentOf(base_payment[1],
                  get(config.salaried_bonus_percentage, DefaultSalariedBonusPercentage))))
    ELSE IF employee.employee_type = HOURLY
    THEN IF employee.hours_worked = None THEN Raised("TypeError")
         ELSE Returned(Some(
                  IF employee.hours_worked[1] >
                         get(config.hourly_bonus_threshold, DefaultHourlyBonusThreshold)
                  THEN get(config.hourly_bonus_amount, DefaultHourlyBonusAmount)
                  ELSE 0))
    ELSE Returned(Some(0))

\* details of a payment: "Base: $b" and, when bonus > 0, ", Bonus: $x".
PaymentDetails(base_payment, bonus) ==
    IF bonus > 0 THEN <<"Base", base_payment, "Bonus", bonus>>
    ELSE <<"Base", base_payment>>

\* The entry carries the base payment instead of the total.
PayEmployeeCommand_execute_LogsBase(employee, payment_strategy, config) ==
    LET base == calculate_payment(payment_strategy, employee)
        bonus == PayEmployeeCommand_calculate_bonus(employee, base.value, config)
    IN IF base.outcome # "ok" THEN Effect(base.outcome, None, employee, <<>>)
       ELSE IF bonus.outcome # "ok" THEN Effect(bonus.outcome, None, employee, <<>>)
       ELSE IF base.value = None THEN Effect("TypeError", None, employee, <<>>)
       ELSE Effect("ok", Some(base.value[1] + bonus.value[1]), employee,
                   <<RecordCall("PAYMENT", Some(employee.name), base.value,
                                PaymentDetails(base.value[1], bonus.value[1]))>>)

\* None + bonus raises TypeError before anything is recorded.
PayEmployeeCommand_execute(employee, payment_strategy, config) ==
    LET base == calculate_payment(payment_strategy, employee)
        bonus == PayEmployeeCommand_calculate_bonus(employee, base.value, config)
    IN IF base.outcome # "ok" THEN Effect(base.outcome, None, employee, <<>>)
       ELSE IF bonus.outcome # "ok" THEN Effect(bonus.outcome, None, employee, <<>>)
       ELSE IF base.value = None THEN Effect("TypeError", None, employee, <<>>)
       ELSE LET total_payment == base.value[1] + bonus.value[1]
            IN Effect("ok", Some(total_payment), employee,
                      <<RecordCall("PAYMENT", Some(employee.name), Some(total_payment),
                                   PaymentDetails(base.value[1], bonus.value[1]))>>)

DecrementUnlessVP_Always(employee, days) ==
    [employee EXCEPT !.vacation_days = @ - days]

\* self.employee.vacation_days after the guarded decrement.
DecrementUnlessVP(employee, days) ==
    IF employee.role # VICE_PRESIDENT
    THEN [employee EXCEPT !.vacation_days = @ - days]
    ELSE employee

\* The balance is decremented before the policy is consulted.
GrantVacationCommand_execute_MutateFirst(employee, vacation_policy, days, payout) ==
    LET changed == DecrementUnlessVP(employee, days)
        allowed == IF payout
                   THEN can_payout_vacation(vacation_policy, employee, days)
                   ELSE can_take_vacation(vacation_policy, employee, days)
    IN IF ~allowed
       THEN Effect("ValueError", None, changed, <<>>)
       ELSE Effect("ok", None, changed,
                   <<RecordCall(IF payout THEN "VACATION_PAYOUT" ELSE "VACATION_TAKEN",
                                Some(employee.name), Some(days),
                                <<IF payout THEN "Paid out" ELSE "Took", days,
                                  "vacation days">>)>>)

GrantVacationCommand_execute(employee, vacation_policy, days, payout) ==
    IF payout
    THEN IF ~can_payout_vacation(vacation_policy, employee, days)
         THEN Effect("ValueError", None, employee, <<>>)
         ELSE Effect("ok", None, DecrementUnlessVP(employee, days),
                     <<RecordCall("VACATION_PAYOUT", Some(employee.name), Some(days),
                                  <<"Paid out", days, "vacation days">>)>>)
    ELSE IF ~can_take_vacation(vacation_policy, employee, days)
         THEN Effect("ValueError", None, employee, <<>>)
         ELSE Effect("ok", None, DecrementUnlessVP(employee, days),
                     <<RecordCall("VACATION_TAKEN", Some(employee.name), Some(days),
                                  <<"Took", days, "vacation days">>)>>)

(***************************************************************************)
(* Calls                                                                   *)
(***************************************************************************)
\* What the caller observes of the latest call.
Call(op, emp, args, policy, outcome, ret) ==
    [op |-> op, emp |-> emp, args |-> args, policy |-> policy,
     outcome |-> outcome, ret |-> ret]

NoCall == Call("none", 0, <<>>, "", "ok", None)

\* VacationService.grant_vacation(employees[i], days, payout)
grant_vacation(i, days, payout) ==
    /\ Len(heap) < MaxLog
    /\ LET employee == employees[i]
           vacation_policy == create_vacation_policy(employee.role, employee.employee_type)
           r == GrantVacationCommand_execute(employee, vacation_policy, days, payout)
       IN /\ employees' = [employees EXCEPT ![i] = r.employee]
          /\ RecordAll(r.calls)
          /\ last' = Call("grant_vacation", i, <<days, payout>>, vacation_policy,
                          r.outcome, r.ret)
    /\ UNCHANGED <<held, held_is_log, callers>>

\* PayrollService.pay_employee(employees[i]) under the configuration snapshot
\* config_manager.get_config() returns.
pay_employee(i, config) ==
    /\ Len(heap) < MaxLog
    /\ LET employee == employees[i]
           payment_strategy == create_payment_strategy(employee.employee_type)
           r == PayEmployeeCommand_execute(employee, payment_strategy, config)
       IN /\ employees' = [employees EXCEPT ![i] = r.employee]
          /\ RecordAll(r.calls)
          /\ last' = Call("pay_employee", i, <<config>>, payment_strategy,
                          r.outcome, r.ret)
    /\ UNCHANGED <<held, held_is_log, callers>>

\* create_payment_strategy(employee_type).calculate_payment(employees[i])
strategy_calculate_payment(i) ==
    /\ LET employee == employees[i]
           payment_strategy == create_payment_strategy(employee.employee_type)
           r == calculate_payment(payment_strategy, employee)
       IN last' = Call("calculate_payment", i, <<>>, payment_strategy,
                       r.outcome, r.value)
    /\ UNCHANGED <<employees, heap, log, held, held_is_log, callers>>

\* employees[i].add_project(project)
employee_add_project(i, project) ==
    /\ Len(employees[i].projects) < MaxProjects
    /\ employees' = [employees EXCEPT ![i] = add_project(@, project)]
    /\ last' = Call("add_project", i, <<project>>, "", "ok", None)
    /\ UNCHANGED <<heap, log, held, held_is_log, callers>>

\* Company.add_project_to_freelancer(employees[i], project_name, amount)
add_project_to_freelancer(i, project_name, amount) ==
    /\ Len(employees[i].projects) < MaxProjects
    /\ IF employees[i].employee_type # FREELANCER
       THEN /\ last' = Call("add_project_to_freelancer", i,
                            <<Project(project_name, amount, TRUE)>>, "",
                            "ValueError", None)
            /\ UNCHANGED employees
       ELSE /\ employees' = [employees EXCEPT
                                ![i] = add_project(@, Project(project_name, amount, TRUE))]
            /\ last' = Call("add_project_to_freelancer", i,
                            <<Project(project_name, amount, TRUE)>>, "", "ok", None)
    /\ UNCHANGED <<heap, log, held, held_is_log, callers>>

\* OperationLog.record(operation, employee_name, amount), details defaulted.
record(operation, employee_name, amount) ==
    /\ Len(heap) < MaxLog
    /\ RecordAll(<<RecordCall(operation, employee_name, amount, None)>>)
    /\ last' = Call("record", 0, <<operation, employee_name, amount>>, "", "ok", None)
    /\ UNCHANGED <<employees, held, held_is_log, callers>>

\* result = OperationLog.get_operations(employee_name), the caller keeping
\* the returned list.
query(employee_name) ==
    /\ held' = get_operations(employee_name)
    /\ held_is_log' = ~get_operations_new_list(employee_name)
    /\ last' = Call("get_operations", 0, <<employee_name>>, "", "ok", None)
    /\ UNCHANGED <<employees, heap, log, callers>>

\* OperationLog.clear_log(): the list is emptied in place; dicts a caller
\* still refers to live on.
clear_log ==
    /\ log' = <<>>
    /\ last' = Call("clear_log", 0, <<>>, "", "ok", None)
    /\ UNCHANGED <<employees, heap, held, held_is_log, callers>>

\* result[k]["amount"] = amount, by the caller holding a query result: the
\* list is the caller's, the dict is the one _operations refers to.
modify_result_entry(k, amount) ==
    /\ heap' = [heap EXCEPT ![held[k]].amount = amount]
    /\ last' = Call("modify_result_entry", 0, <<k, amount>>, "", "ok", None)
    /\ UNCHANGED <<employees, log, held, held_is_log, callers>>

\* The contents of the list the caller holds.
Result == IF held_is_log THEN log ELSE held

\* result.append(result[k]) / result.append(entry of the log), by the caller
\* holding a query result: ref is any dict the caller can reach.
result_append(ref) ==
    /\ Len(Result) < MaxLog
    /\ IF held_is_log
       THEN log' = Append(log, ref) /\ UNCHANGED held
       ELSE held' = Append(held, ref) /\ UNCHANGED log
    /\ last' = Call("result_append", 0, <<ref>>, "", "ok", None)
    /\ UNCHANGED <<employees, heap, held_is_log, callers>>

\* del result[k], by the caller holding a query result.
result_remove(k) ==
    /\ LET without(list) == SubSeq(list, 1, k - 1) \o SubSeq(list, k + 1, Len(list))
       IN IF held_is_log
          THEN log' = without(log) /\ UNCHANGED held
          ELSE held' = without(held) /\ UNCHANGED log
    /\ last' = Call("result_remove", 0, <<k>>, "", "ok", None)
    /\ UNCHANGED <<employees, heap, held_is_log, callers>>

\* The append reads the list and stores the longer list as two steps: it
\* extends what the thread saw when it evaluated cls._operations.
list_append_ReadThenWrite(current, loaded, ref) == Append(loaded, ref)

\* cls._operations.append(log_entry): list.append changes the list object in
\* place in one step of the interpreter, whatever its contents (loaded) were
\* when the thread evaluated cls._operations.
list_append(current, loaded, ref) == Append(current, ref)

\* A thread in OperationLog.record: pc is "idle" outside the call, "built"
\* once log_entry is constructed, "loaded" once cls._operations is
\* evaluated; entry refers to its log_entry, loaded is what the list held
\* then, appended lists the entries of its completed calls.
Caller(pc, entry, loaded, appended) ==
    [pc |-> pc, entry |-> entry, loaded |-> loaded, appended |-> appended]

\* Thread t enters record and constructs log_entry (lines 276-282).
record_build(t, operation, employee_name, amount) ==
    /\ callers[t].pc = "idle"
    /\ Len(heap) < MaxLog
    /\ heap' = Append(heap, LogEntry(Len(heap) + 1, operation, employee_name,
                                     amount, None))
    /\ callers' = [callers EXCEPT ![t] = Caller("built", Len(heap) + 1, <<>>, @.appended)]
    /\ last' = Call("record_build", t, <<operation, employee_name, amount>>, "",
                    "ok", None)
    /\ UNCHANGED <<employees, log, held, held_is_log>>

\* Thread t evaluates cls._operations (line 283, the receiver of append).
record_load(t) ==
    /\ callers[t].pc = "built"
    /\ callers' = [callers EXCEPT ![t].pc = "loaded", ![t].loaded = log]
    /\ last' = Call("record_load", t, <<>>, "", "ok", None)
    /\ UNCHANGED <<employees, heap, log, held, held_is_log>>

\* Thread t's append runs and record returns (line 283).
record_append(t) ==
    /\ callers[t].pc = "loaded"
    /\ log' = list_append(log, callers[t].loaded, callers[t].entry)
    /\ callers' = [callers EXCEPT ![t] = Caller("idle", 0, <<>>,
                                                Append(@.appended, @.entry))]
    /\ last' = Call("record_append", t, <<>>, "", "ok", None)
    /\ UNCHANGED <<employees, heap, held, held_is_log>>

\* Company.add_employee(employee_data), employees being company.employees.
add_employee(employee_data) ==
    /\ Len(employees) < MaxEmployees
    /\ LET r == create_employee(employee_data)
       IN /\ employees' = IF r.outcome = "ok" THEN Append(employees, r.value)
                          ELSE employees
          /\ last' = Call("add_employee", 0, <<employee_data>>, "", r.outcome, None)
    /\ UNCHANGED <<heap, log, held, held_is_log, callers>>

\* Company.grant_vacation_to_employee(company.employees[i], days, payout)
grant_vacation_to_employee(i, days, payout) == grant_vacation(i, days, payout)

(***************************************************************************)
(* Vacation administration of one employee                                 *)
(***************************************************************************)
InitVacation ==
    /\ \E role \in Role \cup {NoRole}, employee_type \in EmployeeType,
          vacation_days \in BalanceValues :
          employees = <<Employee("Ann", role, employee_type, vacation_days,
                                 None, None, None)>>
    /\ heap = <<>>
    /\ log = <<>>
    /\ held = <<>>
    /\ held_is_log = FALSE
    /\ callers = <<>>
    /\ last = NoCall

GrantVacation ==
    \E i \in DOMAIN employees, days \in DaysValues, payout \in BOOLEAN :
        grant_vacation(i, days, payout)

NextVacation == GrantVacation

SpecVacation == InitVacation /\ [][NextVacation]_vars

(***************************************************************************)
(* Payroll of one employee                                                 *)
(***************************************************************************)
\* The fields an Employee of each type can be constructed with: a required
\* field may be left unset.
PayFields(employee_type) ==
    CASE employee_type = SALARIED ->
             {<<salary, None, None>> : salary \in {None} \cup {Some(v) : v \in SalaryValues}}
      [] employee_type = HOURLY ->
             {<<None, rate, hours>> :
                 rate \in {None} \cup {Some(v) : v \in RateValues},
                 hours \in {None} \cup {Some(v) : v \in HoursValues}}
      [] employee_type = FREELANCER -> {<<None, None, None>>}

\* The configuration snapshots a payment is made under.
Configs ==
    {Config(percentage, threshold, amount) :
        percentage \in {None, Some(50)},
        threshold \in {None, Some(170)},
        amount \in {None, Some(50)}}

InitPayroll ==
    /\ \E role \in Role \cup {NoRole}, employee_type \in EmployeeType :
          \E f \in PayFields(employee_type) :
             employees = <<Employee("Ann", role, employee_type, 25, f[1], f[2], f[3])>>
    /\ heap = <<>>
    /\ log = <<>>
    /\ held = <<>>
    /\ held_is_log = FALSE
    /\ callers = <<>>
    /\ last = NoCall

PayEmployee ==
    \E i \in DOMAIN employees, config \in Configs : pay_employee(i, config)

CalculatePayment == \E i \in DOMAIN employees : strategy_calculate_payment(i)

AddProject ==
    \E i \in DOMAIN employees, amount \in ProjectAmounts, delivered \in BOOLEAN :
        employee_add_project(i, Project("p", amount, delivered))

AddProjectToFreelancer ==
    \E i \in DOMAIN employees, amount \in ProjectAmounts :
        add_project_to_freelancer(i, "p", amount)

NextPayroll ==
    \/ PayEmployee
    \/ CalculatePayment
    \/ AddProject
    \/ AddProjectToFreelancer

SpecPayroll == InitPayroll /\ [][NextPayroll]_vars

(***************************************************************************)
(* The audit log and its callers                                           *)
(***************************************************************************)
InitLog ==
    /\ employees = <<>>
    /\ heap = <<>>
    /\ log = <<>>
    /\ held = <<>>
    /\ held_is_log = FALSE
    /\ callers = <<>>
    /\ last = NoCall

Record ==
    \E operation \in {"PAYMENT"},
       employee_name \in {None} \cup {Some(n) : n \in Names},
       amount \in {Some(v) : v \in AmountValues} :
        record(operation, employee_name, amount)

GetOperations ==
    \E employee_name \in {None} \cup {Some(n) : n \in Names} : query(employee_name)

ClearLog == clear_log

ModifyResultEntry ==
    \E k \in DOMAIN held : modify_result_entry(k, Some(0))

ResultAppend ==
    \E ref \in DOMAIN heap : result_append(ref)

ResultRemove ==
    \E k \in DOMAIN Result : result_remove(k)

NextLog ==
    \/ Record
    \/ GetOperations
    \/ ClearLog
    \/ ModifyResultEntry
    \/ ResultAppend
    \/ ResultRemove

SpecLog == InitLog /\ [][NextLog]_vars

(***************************************************************************)
(* Concurrent callers of the audit log                                     *)
(***************************************************************************)
\* The name thread t records under.
CallerName(t) == IF t = 1 THEN "Ann" ELSE IF t = 2 THEN "Bob" ELSE ""

InitConcurrent ==
    /\ employees = <<>>
    /\ heap = <<>>
    /\ log = <<>>
    /\ held = <<>>
    /\ held_is_log = FALSE
    /\ callers = [t \in 1..NumCallers |-> Caller("idle", 0, <<>>, <<>>)]
    /\ last = NoCall

\* The record call of a payment or of a vacation command, the amount naming
\* the call.
RecordBuild ==
    \E t \in DOMAIN callers, operation \in {"PAYMENT", "VACATION_TAKEN"} :
        record_build(t, operation, Some(CallerName(t)),
                     Some(Len(callers[t].appended) + 1))

RecordLoad == \E t \in DOMAIN callers : record_load(t)

RecordAppend == \E t \in DOMAIN callers : record_append(t)

NextConcurrent ==
    \/ RecordBuild
    \/ RecordLoad
    \/ RecordAppend

SpecConcurrent == InitConcurrent /\ [][NextConcurrent]_vars

(***************************************************************************)
(* A company and its employees                                             *)
(***************************************************************************)
\* The mappings employees are created from: role and type tags inside and
\* outside the enums, the keys of the type present or absent.
CompanyData ==
    {EmployeeData("Ann", role, type, f[1], f[2], f[3]) :
        role \in Role \cup {"director"},
        type \in {SALARIED},
        f \in {<<None, None, None>>, <<Some(100), None, None>>}}
    \cup
    {EmployeeData("Ann", role, type, f[1], f[2], f[3]) :
        role \in Role \cup {"director"},
        type \in {HOURLY},
        f \in {<<None, None, Some(160)>>, <<None, Some(20), Some(160)>>}}
    \cup
    {EmployeeData("Ann", role, type, None, None, None) :
        role \in Role \cup {"director"},
        type \in {FREELANCER, "contractor"}}

InitCompany ==
    /\ employees = <<>>
    /\ heap = <<>>
    /\ log = <<>>
    /\ held = <<>>
    /\ held_is_log = FALSE
    /\ callers = <<>>
    /\ last = NoCall

AddEmployee == \E employee_data \in CompanyData : add_employee(employee_data)

GrantVacationToEmployee ==
    \E i \in DOMAIN employees, days \in CompanyDaysValues, payout \in BOOLEAN :
        grant_vacation_to_employee(i, days, payout)

NextCompany ==
    \/ AddEmployee
    \/ GrantVacationToEmployee

SpecCompany == InitCompany /\ [][NextCompany]_vars

(***************************************************************************)
(* Properties of the vacation command                                      *)
(***************************************************************************)
\* A step that is a call of grant_vacation (every call sets last).
GrantStep == last'.op = "grant_vacation"

\* The stored entries before the step are the stored entries after it, in
\* place and with the same fields.
LogKept ==
    /\ Len(log') >= Len(log)
    /\ \A k \in 1..Len(log) : log'[k] = log[k] /\ heap'[log[k]] = heap[log[k]]

\* The check the policy chosen by StrategyFactory makes for the request.
PolicyCheck(employee, days, payout) ==
    LET policy == create_vacation_policy(employee.role, employee.employee_type)
    IN IF payout THEN can_payout_vacation(policy, employee, days)
       ELSE can_take_vacation(policy, employee, days)

\* C1: a vacation command is all-or-nothing.  Either the policy check is
\* false, the call raises ValueError and the employee and the audit log are
\* exactly as before; or the check is true, the call succeeds, the log gains
\* exactly one entry (VACATION_PAYOUT when payout, else VACATION_TAKEN, for
\* this employee, amount = days) and a non-VP balance drops by exactly days.
C1_AllOrNothing ==
    [][GrantStep =>
        LET i == last'.emp
            days == last'.args[1]
            payout == last'.args[2]
            e == employees[i]
        IN \/ /\ ~PolicyCheck(e, days, payout)
              /\ last'.outcome = "ValueError"
              /\ employees' = employees
              /\ log' = log
              /\ heap' = heap
           \/ /\ PolicyCheck(e, days, payout)
              /\ last'.outcome = "ok"
              /\ Len(log') = Len(log) + 1
              /\ LogKept
              /\ heap'[log'[Len(log')]].operation =
                     (IF payout THEN "VACATION_PAYOUT" ELSE "VACATION_TAKEN")
              /\ heap'[log'[Len(log')]].employee_name = Some(e.name)
              /\ heap'[log'[Len(log')]].amount = Some(days)
              /\ e.role # VICE_PRESIDENT =>
                     employees'[i].vacation_days = e.vacation_days - days
    ]_vars

\* Bob, a Manager with 12 days: the payout of 10 succeeded (balance 2, one
\* VACATION_PAYOUT entry of amount 10) and the payout of 3 more was refused.
C1_Witness ==
    /\ last.op = "grant_vacation"
    /\ last.args = <<3, TRUE>>
    /\ last.outcome = "ValueError"
    /\ employees[1].role = MANAGER
    /\ employees[1].vacation_days = 2
    /\ Len(log) = 1
    /\ heap[log[1]].operation = "VACATION_PAYOUT"
    /\ heap[log[1]].amount = Some(10)

\* C2: no vacation command changes the vacation_days of a VicePresident, and
\* a VP request succeeds iff days <= 5, whatever the balance.
C2_VPBalanceFixed ==
    [][(GrantStep /\ employees[last'.emp].role = VICE_PRESIDENT) =>
        /\ employees'[last'.emp].vacation_days = employees[last'.emp].vacation_days
        /\ (last'.outcome = "ok") <=> (last'.args[1] <= 5)
        /\ (last'.outcome = "ok") => Len(log') = Len(log) + 1
    ]_vars

\* Carol, a VP with no days left: taking 5 days succeeded, one VACATION_TAKEN
\* entry of amount 5, balance unchanged.
C2_Witness ==
    /\ last.op = "grant_vacation"
    /\ last.args = <<5, FALSE>>
    /\ last.outcome = "ok"
    /\ employees[1].role = VICE_PRESIDENT
    /\ employees[1].vacation_days = 0
    /\ Len(log) >= 1
    /\ heap[log[Len(log)]].operation = "VACATION_TAKEN"
    /\ heap[log[Len(log)]].amount = Some(5)

\* The rules the specification's table gives for a role, whatever the
\* compensation type: is the request accepted?
RoleRules(role, balance, days, payout) ==
    CASE role = INTERN -> FALSE
      [] role = MANAGER -> balance >= days /\ (payout => days <= 10)
      [] role = VICE_PRESIDENT -> days <= 5

\* C4: the vacation policy is selected by role first.  For every
\* compensation type an Intern, a Manager and a VicePresident get their
\* role's policy and its rules; the Hourly policy is selected only when the
\* role is none of the three.  An Hourly Manager with balance >= days has a
\* payout accepted iff days <= 10.
C4_RoleFirst ==
    [][GrantStep =>
        LET e == employees[last'.emp]
            days == last'.args[1]
            payout == last'.args[2]
        IN /\ e.role = INTERN => last'.policy = "InternVacation"
           /\ e.role = MANAGER => last'.policy = "ManagerVacation"
           /\ e.role = VICE_PRESIDENT => last'.policy = "VPVacation"
           /\ last'.policy = "HourlyVacation" =>
                  (e.role \notin Role /\ e.employee_type = HOURLY)
           /\ e.role \in Role =>
                  ((last'.outcome = "ok") <=>
                       RoleRules(e.role, e.vacation_days, days, payout))
           /\ (e.role = MANAGER /\ e.employee_type = HOURLY /\ payout
                 /\ e.vacation_days >= days) =>
                  ((last'.outcome = "ok") <=> (days <= 10))
    ]_vars

\* An Hourly Manager was paid out 10 days, more than the Hourly cap of 5.
C4_Witness ==
    /\ last.op = "grant_vacation"
    /\ last.args = <<10, TRUE>>
    /\ last.outcome = "ok"
    /\ last.policy = "ManagerVacation"
    /\ employees[1].role = MANAGER
    /\ employees[1].employee_type = HOURLY

\* C8 as stated: a request of 0 days succeeds for every employee, leaves
\* vacation_days unchanged and appends exactly one entry.
C8_ZeroDaysAlwaysSucceeds ==
    [][(GrantStep /\ last'.args[1] = 0) =>
        /\ last'.outcome = "ok"
        /\ employees'[last'.emp].vacation_days = employees[last'.emp].vacation_days
        /\ Len(log') = Len(log) + 1
    ]_vars

\* C8 as amended: a request of 0 days, take or payout, succeeds, leaves
\* vacation_days unchanged and appends exactly one entry of amount 0 when the
\* employee is no Intern and is a VicePresident or has vacation_days >= 0;
\* otherwise (an Intern, or a negative balance of a non-VP) it raises
\* ValueError and appends nothing.
C8_ZeroDays ==
    [][(GrantStep /\ last'.args[1] = 0) =>
        LET e == employees[last'.emp]
        IN /\ employees'[last'.emp].vacation_days = e.vacation_days
           /\ IF e.role # INTERN /\ (e.role = VICE_PRESIDENT \/ e.vacation_days >= 0)
              THEN /\ last'.outcome = "ok"
                   /\ Len(log') = Len(log) + 1
                   /\ LogKept
                   /\ heap'[log'[Len(log')]].amount = Some(0)
              ELSE /\ last'.outcome = "ValueError"
                   /\ log' = log
                   /\ heap' = heap
    ]_vars

\* A Manager with no days left was granted a payout of 0 days.
C8_Witness ==
    /\ last.op = "grant_vacation"
    /\ last.args = <<0, TRUE>>
    /\ last.outcome = "ok"
    /\ employees[1].role = MANAGER
    /\ employees[1].vacation_days = 0
    /\ Len(log) >= 1
    /\ heap[log[Len(log)]].amount = Some(0)

(***************************************************************************)
(* Properties of the payment command and the payment strategies            *)
(***************************************************************************)
PayStep == last'.op = "pay_employee"

\* Every field the employee's declared type requires is set.
WellFormed(employee) ==
    CASE employee.employee_type = SALARIED -> employee.salary # None
      [] employee.employee_type = HOURLY ->
             employee.hourly_rate # None /\ employee.hours_worked # None
      [] employee.employee_type = FREELANCER -> TRUE

\* The base and the bonus a PAYMENT entry states in its details.
DetailsBase(entry) == entry.details[2]

DetailsBonus(entry) == IF Len(entry.details) = 4 THEN entry.details[4] ELSE 0

\* C5: paying a well-formed employee succeeds, appends exactly one entry
\* (operation PAYMENT, the employee's name, amount = the returned total =
\* base + bonus), changes no field of any employee and leaves the stored
\* entries in place.
C5_PayAppendsOneEntry ==
    [][(PayStep /\ WellFormed(employees[last'.emp])) =>
        LET e == employees[last'.emp]
            entry == heap'[log'[Len(log')]]
        IN /\ last'.outcome = "ok"
           /\ last'.ret # None
           /\ Len(log') = Len(log) + 1
           /\ LogKept
           /\ entry.operation = "PAYMENT"
           /\ entry.employee_name = Some(e.name)
           /\ entry.amount = last'.ret
           /\ last'.ret[1] = DetailsBase(entry) + DetailsBonus(entry)
           /\ employees' = employees
    ]_vars

\* Alice, Hourly at 20 for 170 hours under the default configuration, was
\* paid 20 * 170 + 100 = 3500 and the log ends with her PAYMENT of 3500.
C5_Witness ==
    /\ last.op = "pay_employee"
    /\ last.args[1] = Config(None, None, None)
    /\ last.ret = Some(3500)
    /\ employees[1].employee_type = HOURLY
    /\ employees[1].hourly_rate = Some(20)
    /\ employees[1].hours_worked = Some(170)
    /\ Len(log) = 2
    /\ heap[log[2]].operation = "PAYMENT"
    /\ heap[log[2]].amount = Some(3500)

\* The hourly bonus of the configuration for the hours worked.
HourlyBonus(config, hours) ==
    IF hours > get(config.hourly_bonus_threshold, 160)
    THEN get(config.hourly_bonus_amount, 100)
    ELSE 0

\* A payment of an Hourly employee that went through.
HourlyPaid ==
    /\ last.op = "pay_employee"
    /\ last.outcome = "ok"
    /\ employees[last.emp].employee_type = HOURLY

\* What the payment added to hourly_rate * hours_worked.
PaidBonus ==
    last.ret[1]
        - employees[last.emp].hourly_rate[1] * employees[last.emp].hours_worked[1]

\* C6 as stated: for every Hourly employee the bonus added to the base is
\* hourly_bonus_amount when hours_worked > hourly_bonus_threshold, else 0.
C6_HourlyBonusEveryRole ==
    HourlyPaid =>
        PaidBonus = HourlyBonus(last.args[1], employees[last.emp].hours_worked[1])

\* C6 as amended: for every Hourly employee whose role is not Intern the
\* bonus is hourly_bonus_amount when hours_worked > hourly_bonus_threshold
\* and 0 otherwise (0 at hours_worked = threshold); for an Hourly Intern the
\* bonus is 0 whatever the hours and the configuration.
C6_HourlyBonus ==
    HourlyPaid =>
        PaidBonus = (IF employees[last.emp].role = INTERN THEN 0
                     ELSE HourlyBonus(last.args[1],
                                      employees[last.emp].hours_worked[1]))

\* An Hourly Manager with hours_worked = 170 was paid under a threshold of
\* 170 and got the base alone.
C6_Witness ==
    /\ HourlyPaid
    /\ employees[last.emp].role = MANAGER
    /\ employees[last.emp].hours_worked = Some(170)
    /\ last.args[1].hourly_bonus_threshold = Some(170)
    /\ last.ret = Some(20 * 170)

\* The sum of the amounts of the delivered projects among the first n.
RECURSIVE DeliveredTotal(_, _)
DeliveredTotal(projects, n) ==
    IF n = 0 THEN 0
    ELSE DeliveredTotal(projects, n - 1)
           + (IF projects[n].delivered THEN projects[n].amount ELSE 0)

\* The payment base of an employee, as the payment rule computes it.
Base(employee) ==
    calculate_payment(create_payment_strategy(employee.employee_type), employee).value

\* C7: the payment base of a Freelance employee is the sum of the amounts of
\* its delivered projects (0 when none is delivered), and adding a project
\* with delivered = false leaves the base unchanged.
C7_FreelanceBase ==
    [][\A i \in DOMAIN employees : employees[i].employee_type = FREELANCER =>
        LET e == employees'[i]
        IN /\ Base(e) = Some(DeliveredTotal(e.projects, Len(e.projects)))
           /\ (\A k \in DOMAIN e.projects : ~e.projects[k].delivered) =>
                  Base(e) = Some(0)
           /\ (last'.op = "add_project" /\ ~last'.args[1].delivered) =>
                  Base(e) = Base(employees[i])
           /\ (last'.op = "calculate_payment" /\ last'.emp = i) =>
                  (last'.outcome = "ok" /\ last'.ret = Base(e))
           /\ (last'.op = "pay_employee" /\ last'.emp = i) =>
                  (last'.outcome = "ok"
                     /\ DetailsBase(heap'[log'[Len(log')]])
                            = DeliveredTotal(e.projects, Len(e.projects)))
    ]_vars

\* A freelancer with a delivered project of 200 and an undelivered one of 50
\* has a payment of 200 calculated.
C7_Witness ==
    /\ last.op = "calculate_payment"
    /\ last.ret = Some(200)
    /\ employees[1].employee_type = FREELANCER
    /\ Len(employees[1].projects) = 2
    /\ employees[1].projects[1] = Project("p", 200, TRUE)
    /\ employees[1].projects[2] = Project("p", 50, FALSE)

\* C9: calculate_payment on an employee with a field required by its
\* declared type unset ends in an error and returns no result.
C9_UnsetFieldRaises ==
    (last.op = "calculate_payment" /\ ~WellFormed(employees[last.emp])) =>
        last.outcome # "ok"

(***************************************************************************)
(* Properties of the audit log                                             *)
(***************************************************************************)
\* The position of a reference in the log (each reference occurs once).
PositionInLog(ref) == CHOOSE j \in DOMAIN log : log[j] = ref

\* result holds exactly the entries of the log whose employee_name is
\* employee_name, in their relative append order.
ExactlyTheEntriesOf(result, employee_name) ==
    /\ \A k \in DOMAIN result :
          /\ \E j \in DOMAIN log : log[j] = result[k]
          /\ heap[result[k]].employee_name = employee_name
    /\ \A j \in DOMAIN log :
          heap[log[j]].employee_name = employee_name =>
              \E k \in DOMAIN result : result[k] = log[j]
    /\ \A k1, k2 \in DOMAIN result :
          k1 < k2 => PositionInLog(result[k1]) < PositionInLog(result[k2])

\* C3: get_operations() with no filter returns every recorded entry in
\* append order, and get_operations(name) returns, for every name an entry
\* can carry, exactly the entries of that name in their append order.
C3_QueryReturnsMatches ==
    last.op = "get_operations" =>
        IF last.args[1] = None
        THEN held = log
        ELSE ExactlyTheEntriesOf(held, last.args[1])

\* C10: an entry is immutable once appended: no call other than clear_log,
\* a change made through a query result included, changes, removes or
\* reorders a stored entry.
C10_EntriesImmutable ==
    [][last'.op # "clear_log" => LogKept]_vars

\* C11: a query result is a point-in-time copy.  A later record or clear_log
\* call leaves the returned list with the same length and the same entries,
\* each with the fields it had; adding to or removing from the returned list
\* leaves the log and its entries as they were.
C11_ResultIsSnapshot ==
    [][/\ last'.op \in {"record", "clear_log"} =>
              /\ Result' = Result
              /\ \A k \in DOMAIN Result : heap'[Result[k]] = heap[Result[k]]
       /\ last'.op \in {"result_append", "result_remove"} =>
              /\ log' = log
              /\ heap' = heap
    ]_vars

\* The caller still holds the two entries of its query after clear_log
\* emptied the log.
C11_Witness ==
    /\ last.op = "clear_log"
    /\ log = <<>>
    /\ Len(Result) = 2
    /\ Result[1] # Result[2]

(***************************************************************************)
(* Properties of the vacation balance                                      *)
(***************************************************************************)
\* C12: a vacation command never raises an employee's balance, whatever
\* integer days it is given and whether it succeeds or fails.
C12_BalanceNeverRises ==
    [][GrantStep =>
        employees'[last'.emp].vacation_days <= employees[last'.emp].vacation_days
    ]_vars

\* The amounts of the VACATION_TAKEN and VACATION_PAYOUT entries that the
\* first n entries of the log entries (references into objects) hold for the
\* name.
RECURSIVE VacationLogged(_, _, _, _)
VacationLogged(objects, entries, name, n) ==
    IF n = 0 THEN 0
    ELSE VacationLogged(objects, entries, name, n - 1)
           + (IF /\ objects[entries[n]].employee_name = Some(name)
                 /\ objects[entries[n]].operation \in {"VACATION_TAKEN", "VACATION_PAYOUT"}
              THEN objects[entries[n]].amount[1]
              ELSE 0)

\* vacation_days plus the days the log holds for the employee.
DaysAccounted(employee, objects, entries) ==
    employee.vacation_days + VacationLogged(objects, entries, employee.name, Len(entries))

\* C14: for an employee that is no VicePresident, a take or payout command
\* with days >= 0 on a balance >= 0 leaves the balance >= 0 and keeps
\* vacation_days + (days logged for the employee) unchanged.  The log is
\* empty when the employee is constructed, so by induction over the commands
\* vacation_days stays >= 0 and equals the initial balance minus the sum of
\* the amounts of the employee's VACATION_TAKEN and VACATION_PAYOUT entries.
C14_BalanceAccounted ==
    [][(/\ GrantStep
        /\ last'.args[1] >= 0
        /\ employees[last'.emp].role # VICE_PRESIDENT
        /\ employees[last'.emp].vacation_days >= 0) =>
        /\ employees'[last'.emp].vacation_days >= 0
        /\ DaysAccounted(employees'[last'.emp], heap', log')
               = DaysAccounted(employees[last'.emp], heap, log)
        /\ (last'.outcome = "ok") =>
               employees'[last'.emp].vacation_days =
                   employees[last'.emp].vacation_days - last'.args[1]
    ]_vars

\* A Manager who started with 25 days took 10 and was paid out 5: 10 days
\* are left and the log holds the 15.
C14_Witness ==
    /\ last.op = "grant_vacation"
    /\ last.outcome = "ok"
    /\ employees[1].role = MANAGER
    /\ employees[1].vacation_days = 10
    /\ Len(log) = 2
    /\ heap[log[1]].operation = "VACATION_TAKEN"
    /\ heap[log[1]].amount = Some(10)
    /\ heap[log[2]].operation = "VACATION_PAYOUT"
    /\ heap[log[2]].amount = Some(5)
    /\ DaysAccounted(employees[1], heap, log) = 25

(***************************************************************************)
(* Properties of concurrent appends                                        *)
(***************************************************************************)
\* The number of record calls that have returned.
RECURSIVE CompletedCalls(_)
CompletedCalls(t) ==
    IF t = 0 THEN 0 ELSE Len(callers[t].appended) + CompletedCalls(t - 1)

\* C13: under every interleaving of concurrent record calls each completed
\* call has appended exactly one complete entry, the one it built, and none
\* is lost or overwritten: the log, empty at the start, holds as many entries
\* as calls have completed.
C13_AppendsSerialized ==
    /\ Len(log) = CompletedCalls(Len(callers))
    /\ \A t \in DOMAIN callers : \A c \in DOMAIN callers[t].appended :
          LET ref == callers[t].appended[c]
          IN /\ Cardinality({j \in DOMAIN log : log[j] = ref}) = 1
             /\ heap[ref].employee_name = Some(CallerName(t))
             /\ heap[ref].amount = Some(c)
             /\ heap[ref].operation \in {"PAYMENT", "VACATION_TAKEN"}
             /\ heap[ref].timestamp = ref

\* Two threads were in record at once and both calls completed: the entry
\* built later was appended first, and the other thread had evaluated
\* cls._operations while the list was still empty.
C13_Witness ==
    /\ \A t \in DOMAIN callers : callers[t].pc = "idle"
    /\ \E t1, t2 \in DOMAIN callers :
          t1 # t2 /\ callers[t1].appended # <<>> /\ callers[t2].appended # <<>>
    /\ Len(log) >= 2
    /\ \E j \in DOMAIN log : j < Len(log) /\ log[j] > log[j + 1]

(***************************************************************************)
(* Properties of a company's employees                                     *)
(***************************************************************************)
RolePolicies == {"InternVacation", "ManagerVacation", "VPVacation"}

\* C15: every employee add_employee adds has a role of Intern, Manager or
\* VicePresident; a role tag outside the three makes the construction fail
\* and leaves the employee list unchanged; every vacation request for an
\* employee of the company selects the Intern, Manager or VP policy.
C15_CompanyRoles ==
    [][/\ \A i \in DOMAIN employees' : employees'[i].role \in Role
       /\ last'.op = "add_employee" =>
              IF last'.args[1].role \in Role
              THEN last'.outcome = "ok" =>
                       /\ Len(employees') = Len(employees) + 1
                       /\ employees'[Len(employees')].role = last'.args[1].role
                       /\ SubSeq(employees', 1, Len(employees)) = employees
              ELSE last'.outcome # "ok" /\ employees' = employees
       /\ last'.op = "grant_vacation" => last'.policy \in RolePolicies
    ]_vars

\* The company's one employee is an Hourly Manager who was paid out 6 days,
\* more than the Hourly policy allows, and adding an employee with the role
\* tag "director" has just failed.
C15_Witness ==
    /\ last.op = "add_employee"
    /\ last.args[1].role = "director"
    /\ last.outcome = "ValueError"
    /\ Len(employees) = 1
    /\ employees[1].role = MANAGER
    /\ employees[1].employee_type = HOURLY
    /\ Len(log) = 1
    /\ heap[log[1]].operation = "VACATION_PAYOUT"
    /\ heap[log[1]].amount = Some(6)

====
